---------------------------- MODULE Spec2Model ----------------------------
(***************************************************************************)
(* A model of SphereConvCube.cpp: a cloud of point sprites that drift      *)
(* radially outward and collapse back to the origin when they leave a      *)
(* cube, drawn through a vertex / geometry / fragment shader pipeline.     *)
(*                                                                         *)
(* Numbers.  The program computes in float (positions, phase, halfSize,    *)
(* shader values) and double (ellapsedTime).  A float is modelled as a     *)
(* decimal floating point number [m, e] with value m * 10^e and a nine     *)
(* digit significand, so that every intermediate result fits TLC's 32 bit  *)
(* integers; sums, products and quotients are rounded or truncated to nine *)
(* digits, the vector length to about seven.  Times are whole seconds.     *)
(***************************************************************************)
EXTENDS Integers, Sequences, FiniteSets

VARIABLES
    created,        \* onCreate has run
    rndSeed,        \* state of the global generator behind rnd::uniform
    texW, texH,     \* texture.width(), texture.height()
    alpha,          \* the samples submitted to the texture, row major
    vertices,       \* pointMesh.vertices()
    colors,         \* pointMesh.colors()
    phase,          \* AlloApp::phase
    ellapsedTime,   \* AlloApp::ellapsedTime
    halfSize,       \* AlloApp::halfSize
    written,        \* history: per particle, the colors the boundary checks
                    \* of the last onAnimate call wrote, in order
    frames,         \* history: number of onAnimate calls so far
    uniforms,       \* the uniforms of the shader program
    vsOut,          \* per point, the vertex stage's outputs of the last draw
    gsOut           \* per point, the vertices the geometry stage emitted

vars == <<created, rndSeed, texW, texH, alpha, vertices, colors, phase,
          ellapsedTime, halfSize, written, frames, uniforms, vsOut, gsOut>>

-----------------------------------------------------------------------------
(* Bounds of the exploration.                                              *)

\* particles in the mesh (N in the program)
NumParticles == 2
\* seeds of the random generator tried
MaxSeed == 2
\* onAnimate calls explored by Spec
MaxFrames == 940
\* largest ellapsedTime explored by Spec
MaxTime == 24
\* width and height of the texture in Spec (256 in the program)
TexSize == 3
\* onAnimate calls explored by SpecE2E
MaxE2EFrames == 1340
\* largest texture width and height built by SpecCreate
MaxTexSize == 6
\* onAnimate calls explored by SpecRender and by SpecChecks
MaxRenderFrames == 2
MaxCheckFrames == 1

-----------------------------------------------------------------------------
(* Decimal floating point.                                                 *)

Abs(n) == IF n < 0 THEN -n ELSE n

Sgn(n) == IF n < 0 THEN -1 ELSE IF n > 0 THEN 1 ELSE 0

Pow10(n) == <<1, 10, 100, 1000, 10000, 100000, 1000000, 10000000,
              100000000, 1000000000>>[n + 1]

\* number of decimal digits of n > 0
NumDigits(n) ==
    IF n < 10000
    THEN IF n < 100 THEN (IF n < 10 THEN 1 ELSE 2)
                    ELSE (IF n < 1000 THEN 3 ELSE 4)
    ELSE IF n < 10000000
         THEN IF n < 100000 THEN 5 ELSE IF n < 1000000 THEN 6 ELSE 7
         ELSE IF n < 100000000 THEN 8 ELSE IF n < 1000000000 THEN 9 ELSE 10

\* a / b rounded to the nearest integer, halves away from zero (b > 0)
RoundDiv(a, b) ==
    LET q == Abs(a) \div b
        r == Abs(a) % b
    IN  Sgn(a) * (IF r >= b - r THEN q + 1 ELSE q)

\* the float with value m * 10^e: nine significant digits, zero as [0, 0]
Canon(m, e) ==
    IF m = 0 THEN [m |-> 0, e |-> 0]
    ELSE LET d == NumDigits(Abs(m))
         IN  IF d <= 9
             THEN [m |-> m * Pow10(9 - d), e |-> e - (9 - d)]
             ELSE [m |-> RoundDiv(m, 10), e |-> e + 1]

FromInt(n) == Canon(n, 0)

Zero == FromInt(0)
One == FromInt(1)

FNeg(a) == [m |-> -a.m, e |-> a.e]

\* a < b
FLt(a, b) ==
    IF a.m = 0 THEN b.m > 0
    ELSE IF b.m = 0 THEN a.m < 0
    ELSE IF a.m > 0 /\ b.m < 0 THEN FALSE
    ELSE IF a.m < 0 /\ b.m > 0 THEN TRUE
    ELSE IF a.m > 0 THEN a.e < b.e \/ (a.e = b.e /\ a.m < b.m)
    ELSE a.e > b.e \/ (a.e = b.e /\ a.m < b.m)

FAbs(a) == [m |-> Abs(a.m), e |-> a.e]

\* a + b: the smaller operand is aligned to the larger one and rounded
FAdd(a, b) ==
    IF a.m = 0 THEN b
    ELSE IF b.m = 0 THEN a
    ELSE LET hi == IF a.e >= b.e THEN a ELSE b
             lo == IF a.e >= b.e THEN b ELSE a
             d == hi.e - lo.e
         IN  IF d > 9 THEN hi
             ELSE Canon(hi.m + RoundDiv(lo.m, Pow10(d)), hi.e)

FSub(a, b) == FAdd(a, FNeg(b))

\* a * b: the nine leading digits of the product of the significands,
\* summed over three-digit limbs
FMul(a, b) ==
    IF a.m = 0 \/ b.m = 0 THEN Zero
    ELSE LET x == Abs(a.m)
             y == Abs(b.m)
             x2 == x \div 1000000
             x1 == (x \div 1000) % 1000
             x0 == x % 1000
             y2 == y \div 1000000
             y1 == (y \div 1000) % 1000
             y0 == y % 1000
             w4 == x2 * y2
             w3 == x2 * y1 + x1 * y2
             w2 == x2 * y0 + x1 * y1 + x0 * y2
             w1 == x1 * y0 + x0 * y1
             mid == w2 + (w1 \div 1000)
             q == w4 * 1000 + w3 + (mid \div 1000)
             sign == Sgn(a.m) * Sgn(b.m)
         IN  IF q < 100000000
             THEN Canon(sign * (q * 10 + ((mid % 1000) \div 100)),
                        a.e + b.e + 8)
             ELSE Canon(sign * q, a.e + b.e + 9)

RECURSIVE DivStep(_, _, _, _)
\* long division: n more digits of r / b appended to acc (r < b < 10^8)
DivStep(acc, r, b, n) ==
    IF n = 0 THEN acc
    ELSE DivStep(acc * 10 + ((r * 10) \div b), (r * 10) % b, b, n - 1)

\* a / b (b # 0): long division by the eight leading digits of b
FDiv(a, b) ==
    IF a.m = 0 THEN Zero
    ELSE LET x == Abs(a.m)
             y == RoundDiv(Abs(b.m), 10)
             q == DivStep(x \div y, x % y, y, 7)
         IN  Canon(Sgn(a.m) * Sgn(b.m) * q, a.e - b.e - 8)

RECURSIVE ISqrtBetween(_, _, _)
\* the integer square root of n, known to lie in lo .. hi - 1
ISqrtBetween(n, lo, hi) ==
    IF hi - lo <= 1 THEN lo
    ELSE LET mid == (lo + hi) \div 2
         IN  IF mid * mid <= n THEN ISqrtBetween(n, mid, hi)
                               ELSE ISqrtBetween(n, lo, mid)

ISqrt(n) == ISqrtBetween(n, 0, 17500)

\* the integer part of a float 0 <= a < 2^31 (conversion to an integer type)
Trunc(a) ==
    IF a.m = 0 THEN 0
    ELSE IF a.e >= 0 THEN a.m * Pow10(a.e)
    ELSE IF a.e < -9 THEN 0
    ELSE a.m \div Pow10(-a.e)

-----------------------------------------------------------------------------
(* Vec3f.                                                                  *)

VAdd(u, v) == [k \in 1..3 |-> FAdd(u[k], v[k])]

VSub(u, v) == [k \in 1..3 |-> FSub(u[k], v[k])]

VScale(u, s) == [k \in 1..3 |-> FMul(u[k], s)]

MaxOf(a, b) == IF a >= b THEN a ELSE b

\* Vec::mag(): sqrt(x*x + y*y + z*z), the components cut to four digits of
\* the largest one's scale, the root refined by one linear step
Mag(u) ==
    IF \A k \in 1..3 : u[k].m = 0 THEN Zero
    ELSE LET top == MaxOf(MaxOf(IF u[1].m = 0 THEN -1000 ELSE u[1].e,
                                IF u[2].m = 0 THEN -1000 ELSE u[2].e),
                          IF u[3].m = 0 THEN -1000 ELSE u[3].e)
             cut(f) == IF f.m = 0 \/ top - f.e > 4 THEN 0
                       ELSE RoundDiv(Abs(f.m), Pow10(5 + top - f.e))
             s == cut(u[1]) * cut(u[1]) + cut(u[2]) * cut(u[2])
                    + cut(u[3]) * cut(u[3])
             root == ISqrt(s)
             frac == ((s - root * root) * 1000) \div (2 * root)
         IN  Canon(root * 1000 + frac, top + 2)

\* 1e-20, the length below which Vec::normalize treats a vector as zero
Tiny == Canon(1, -20)

\* Vec::normalize(scale): the vector rescaled to length scale; a vector of
\* (nearly) zero length becomes (scale, 0, 0)
Normalize(u, scale) ==
    LET m == Mag(u)
    IN  IF FLt(Tiny, m) THEN VScale(u, FDiv(scale, m))
        ELSE <<scale, Zero, Zero>>

-----------------------------------------------------------------------------
(* onCreate: the alpha texture.                                            *)

\* exp(-1)
ExpMinusOne == Canon(367879441, -9)

RECURSIVE PowExpMinusOne(_)
\* exp(-n) for a natural number n
PowExpMinusOne(n) ==
    IF n = 0 THEN One ELSE FMul(ExpMinusOne, PowExpMinusOne(n - 1))

RECURSIVE ExpSeries(_, _, _, _)
\* the Taylor series of exp(-f) for 0 <= f < 1: acc plus the terms from the
\* k-th one on, term being the (k-1)-th
ExpSeries(f, term, k, acc) ==
    IF k > 12 THEN acc
    ELSE LET next == FDiv(FMul(term, FNeg(f)), FromInt(k))
         IN  ExpSeries(f, next, k + 1, FAdd(acc, next))

\* exp(u) for u <= 0
Exp(u) ==
    LET t == FNeg(u)
        n == Trunc(t)
        f == FSub(t, FromInt(n))
    IN  FMul(PowExpMinusOne(n), ExpSeries(f, One, 1, One))

\* variant: the index divided by n instead of n - 1
CoordinateOverN(k, n) ==
    FSub(FMul(FDiv(FromInt(k), FromInt(n)), FromInt(2)), One)

\* float(k) / (n - 1) * 2 - 1: sample index k of n mapped to [-1, 1]
Coordinate(k, n) ==
    FSub(FMul(FDiv(FromInt(k), FromInt(n - 1)), FromInt(2)), One)

\* the largest positive short int, pow(2, 15) - 1
MaxShort == 32767

\* the sample stored at column i of row j of an Nx by Ny texture
AlphaSample(i, j, Nx, Ny) ==
    LET y == Coordinate(j, Ny)
        x == Coordinate(i, Nx)
        m == Exp(FMul(FromInt(-13), FAdd(FMul(x, x), FMul(y, y))))
    IN  Trunc(FMul(m, FromInt(MaxShort)))

\* the vector alpha after the two loops: alpha[j * Nx + i] at index
\* j * Nx + i + 1
BuildAlpha(Nx, Ny) ==
    [n \in 1..(Nx * Ny) |-> AlphaSample((n - 1) % Nx, (n - 1) \div Nx, Nx, Ny)]

-----------------------------------------------------------------------------
(* onCreate: the mesh of points.                                           *)

\* Sample angles in [0, 2 pi), each given by its cosine and sine:
\* 0, pi/2, pi, 0.164 and pi/4.
AngleSamples ==
    << [cos |-> One, sin |-> Zero],
       [cos |-> Zero, sin |-> One],
       [cos |-> FNeg(One), sin |-> Zero],
       [cos |-> Canon(9866, -4), sin |-> Canon(1633, -4)],
       [cos |-> Canon(7071, -4), sin |-> Canon(7071, -4)] >>

\* the sequence of angles the generator produces, repeated cyclically
AngleStream == <<1, 2, 4, 2, 5, 3, 2, 2, 1, 2>>

\* rnd::uniform(6.2831853): the k-th draw (k = 0, 1, ...) after seeding
Uniform(seed, k) ==
    AngleSamples[AngleStream[((seed + k) % Len(AngleStream)) + 1]]

Cos(a) == a.cos

Sin(a) == a.sin

\* the sphere radius r and CLOUD_WIDTH
Radius == Canon(1, -2)
CloudWidth == FromInt(80)

\* HSV(h, s, v), the hue given in hundredths
HSV(h, s, v) == [h |-> Canon(h, -2), s |-> FromInt(s), v |-> FromInt(v)]

\* the vertex added for the angles horizontal and vertical
SpherePoint(horizontal, vertical) ==
    VScale(<<FMul(FMul(Radius, Cos(horizontal)), Sin(vertical)),
             FMul(Radius, Cos(vertical)),
             FMul(FMul(Radius, Sin(horizontal)), Sin(vertical))>>,
           CloudWidth)

InitialVertices(seed) ==
    [i \in 1..NumParticles |->
        SpherePoint(Uniform(seed, 2 * (i - 1)), Uniform(seed, 2 * (i - 1) + 1))]

InitialColors == [i \in 1..NumParticles |-> HSV(70, 1, 1)]

-----------------------------------------------------------------------------
(* onAnimate.                                                              *)

\* float size = 10.0
Size == FromInt(10)

\* variant: the increment truncated to an integer
NoIncrement == Zero

\* float increment = 0.01
Increment == Canon(1, -2)

\* variant: the position is left as it is
NoCollapse == One

\* the scalar a position that left the cube is multiplied by, 0.000001
Collapse == Canon(1, -6)

\* variant: t * 0.05 without the fmod
HueUnwrapped(t) == t * 5

\* fmod(t * 0.05, 1.0) in hundredths, for a time t >= 0 in whole seconds
Hue(t) == (t * 5) % 100

\* the test of one component c: c > size || c < -size
Outside(c) == FLt(Size, c) \/ FLt(c, FNeg(Size))

\* variant: only the component that left the cube is scaled
AxisCheckComponent(p, axis, t) ==
    IF Outside(p.pos[axis])
    THEN [pos |-> [p.pos EXCEPT ![axis] = FMul(p.pos[axis], Collapse)],
          color |-> HSV(Hue(t), 1, 1),
          written |-> Append(p.written, HSV(Hue(t), 1, 1))]
    ELSE p

\* variant: the elapsed time advances from one test to the next
AxisCheckTicking(p, axis, t) ==
    IF Outside(p.pos[axis])
    THEN [pos |-> VScale(p.pos, Collapse),
          color |-> HSV(Hue(t + axis - 1), 1, 1),
          written |-> Append(p.written, HSV(Hue(t + axis - 1), 1, 1))]
    ELSE p

\* one of the three boundary tests: p is [pos, color, written], axis is
\* 1 (x), 2 (y) or 3 (z), t the elapsed time
AxisCheck(p, axis, t) ==
    IF Outside(p.pos[axis])
    THEN [pos |-> VScale(p.pos, Collapse),
          color |-> HSV(Hue(t), 1, 1),
          written |-> Append(p.written, HSV(Hue(t), 1, 1))]
    ELSE p

\* variant: the increment is subtracted
MovedInward(pos) == VSub(pos, Normalize(pos, Increment))

\* vertices()[i] += incVec, with incVec the vertex normalized to increment
Moved(pos) == VAdd(pos, Normalize(pos, Increment))

\* the body of the loop over the particles for one of them
UpdateParticle(pos, color, t) ==
    LET p0 == [pos |-> Moved(pos), color |-> color, written |-> <<>>]
        p1 == AxisCheck(p0, 1, t)
        p2 == AxisCheck(p1, 2, t)
    IN  AxisCheck(p2, 3, t)

\* phase after "phase += dt; if (phase > 3) phase -= 3"
WrappedPhase(ph, dt) ==
    LET sum == FAdd(ph, FromInt(dt))
    IN  IF FLt(FromInt(3), sum) THEN FSub(sum, FromInt(3)) ELSE sum

\* halfSize = 0.2 * phase / 3
HalfSizeOf(ph) == FDiv(FMul(Canon(2, -1), ph), FromInt(3))

onAnimate(dt) ==
    /\ created
    /\ \E t \in {ellapsedTime + dt} :
       \E upd \in {[i \in 1..NumParticles |->
                       UpdateParticle(vertices[i], colors[i], t)]} :
           /\ ellapsedTime' = t
           /\ halfSize' = HalfSizeOf(WrappedPhase(phase, dt))
           /\ phase' = One
           /\ vertices' = [i \in 1..NumParticles |-> upd[i].pos]
           /\ colors' = [i \in 1..NumParticles |-> upd[i].color]
           /\ written' = [i \in 1..NumParticles |-> upd[i].written]
    /\ frames' = frames + 1
    /\ UNCHANGED <<created, rndSeed, texW, texH, alpha, uniforms, vsOut, gsOut>>

-----------------------------------------------------------------------------
(* The shader pipeline and onDraw.  The fragment stage runs once per       *)
(* rasterized fragment and is not modelled.                                *)

\* mat4 * vec4, m given by its rows
MatVec(m, v) ==
    [r \in 1..4 |->
        FAdd(FAdd(FAdd(FMul(m[r][1], v[1]), FMul(m[r][2], v[2])),
                  FMul(m[r][3], v[3])),
             FMul(m[r][4], v[4]))]

V4Add(u, v) == [k \in 1..4 |-> FAdd(u[k], v[k])]

\* float speed = 0.3
Speed == Canon(3, -1)

\* GLSL normalize(v); its result for the zero vector is undefined, and no
\* vertex of the mesh is the zero vector
GlslNormalize(v) == VScale(v, FDiv(One, Mag(v)))

\* the value of the global bitToAdd when the vertex stage's main returns
BitToAdd(vertexPosition, phaseU) ==
    LET b0 == VScale(GlslNormalize(vertexPosition), FMul(phaseU, Speed))
        temp == VAdd(b0, vertexPosition)
        out(k) == FLt(One, FAbs(temp[k]))
        b1 == IF out(1) THEN VSub(b0, vertexPosition) ELSE b0
        b2 == IF out(2) THEN VSub(b1, vertexPosition) ELSE b1
    IN  IF out(3) THEN VSub(b2, vertexPosition) ELSE b2

\* variant: the line "vertexPosition + bitToAdd" in place of vertexPosition
VertexMainDrifting(vertexPosition, vertexColor, modelView, phaseU) ==
    [bitToAdd |-> BitToAdd(vertexPosition, phaseU),
     gl_Position |-> MatVec(modelView,
                            <<FAdd(vertexPosition[1],
                                   BitToAdd(vertexPosition, phaseU)[1]),
                              FAdd(vertexPosition[2],
                                   BitToAdd(vertexPosition, phaseU)[2]),
                              FAdd(vertexPosition[3],
                                   BitToAdd(vertexPosition, phaseU)[3]), One>>),
     color |-> vertexColor]

\* the vertex stage's main for one vertex
VertexMain(vertexPosition, vertexColor, modelView, phaseU) ==
    [bitToAdd |-> BitToAdd(vertexPosition, phaseU),
     gl_Position |-> MatVec(modelView,
                            <<vertexPosition[1], vertexPosition[2],
                              vertexPosition[3], One>>),
     color |-> vertexColor]

\* what one EmitVertex() of the geometry stage emits
Emit(m, v, dx, dy, s, t, color) ==
    [gl_Position |-> MatVec(m, V4Add(v, <<dx, dy, Zero, Zero>>)),
     textureCoordinate |-> <<FromInt(s), FromInt(t)>>,
     color |-> color]

\* variant: the second and third vertex emitted in the other order
GeometryMainSwapped(v, color, m, hs) ==
    << Emit(m, v, FNeg(hs), FNeg(hs), 0, 0, color),
       Emit(m, v, FNeg(hs), hs, 0, 1, color),
       Emit(m, v, hs, FNeg(hs), 1, 0, color),
       Emit(m, v, hs, hs, 1, 1, color) >>

\* the geometry stage's main for one point: the vertices it emits, in order
GeometryMain(v, color, m, hs) ==
    << Emit(m, v, FNeg(hs), FNeg(hs), 0, 0, color),
       Emit(m, v, hs, FNeg(hs), 1, 0, color),
       Emit(m, v, FNeg(hs), hs, 0, 1, color),
       Emit(m, v, hs, hs, 1, 1, color) >>

ZeroMat == [r \in 1..4 |-> [c \in 1..4 |-> Zero]]

\* the uniforms before the first draw
NoUniforms ==
    [halfSize |-> Zero, phase |-> Zero,
     al_ModelViewMatrix |-> ZeroMat, al_ProjectionMatrix |-> ZeroMat]

\* onDraw, the host supplying the two matrices
onDraw(modelView, projection) ==
    /\ created
    /\ \E u \in {[halfSize |-> halfSize,
                   phase |-> FromInt(ellapsedTime),
                   al_ModelViewMatrix |-> modelView,
                   al_ProjectionMatrix |-> projection]} :
       \E vs \in {[i \in 1..NumParticles |->
                      VertexMain(vertices[i], colors[i], modelView, u.phase)]} :
           /\ uniforms' = u
           /\ vsOut' = vs
           /\ gsOut' = [i \in 1..NumParticles |->
                           GeometryMain(vs[i].gl_Position, vs[i].color,
                                        projection, u.halfSize)]
    /\ UNCHANGED <<created, rndSeed, texW, texH, alpha, vertices, colors,
                   phase, ellapsedTime, halfSize, written, frames>>

-----------------------------------------------------------------------------
(* The program: onCreate, then one onAnimate per frame.                    *)

\* the frame times tried, in seconds
FrameTimes == {0, 4, 20}

Seeds == 0..MaxSeed

NoOutput == [i \in 1..NumParticles |-> <<>>]

\* the state onCreate leaves
Created(seed, Nx, Ny) ==
    /\ created = TRUE
    /\ rndSeed = seed
    /\ texW = Nx
    /\ texH = Ny
    /\ alpha = BuildAlpha(Nx, Ny)
    /\ vertices = InitialVertices(seed)
    /\ colors = InitialColors
    /\ phase = Zero
    /\ ellapsedTime = 0
    /\ halfSize = Zero
    /\ written = NoOutput
    /\ frames = 0
    /\ uniforms = NoUniforms
    /\ vsOut = NoOutput
    /\ gsOut = NoOutput

Init == \E seed \in Seeds : Created(seed, TexSize, TexSize)

Next ==
    \E dt \in FrameTimes :
        /\ frames < MaxFrames
        /\ ellapsedTime + dt <= MaxTime
        /\ onAnimate(dt)

Spec == Init /\ [][Next]_vars

-----------------------------------------------------------------------------
(* SpecE2E: onCreate, then onAnimate(1) frame after frame.                 *)

NextE2E == frames < MaxE2EFrames /\ onAnimate(1)

\* what every step of NextE2E does to the call counter; it is enabled
\* exactly when NextE2E is
FrameTick == frames < MaxE2EFrames /\ frames' = frames + 1

\* the framework keeps calling onAnimate: weak fairness of NextE2E, stated
\* on the counter
SpecE2E == Init /\ [][NextE2E]_vars /\ WF_frames(FrameTick)

-----------------------------------------------------------------------------
(* SpecCreate: onCreate for textures of several sizes.                     *)

TexSizes == 2..MaxTexSize

InitCreate ==
    /\ created = FALSE
    /\ rndSeed \in Seeds
    /\ texW \in TexSizes
    /\ texH \in TexSizes
    /\ alpha = <<>>
    /\ vertices = <<>>
    /\ colors = <<>>
    /\ phase = Zero
    /\ ellapsedTime = 0
    /\ halfSize = Zero
    /\ written = NoOutput
    /\ frames = 0
    /\ uniforms = NoUniforms
    /\ vsOut = NoOutput
    /\ gsOut = NoOutput

onCreate ==
    /\ ~created
    /\ created' = TRUE
    /\ alpha' = BuildAlpha(texW, texH)
    /\ vertices' = InitialVertices(rndSeed)
    /\ colors' = InitialColors
    /\ UNCHANGED <<rndSeed, texW, texH, phase, ellapsedTime, halfSize, written,
                   frames, uniforms, vsOut, gsOut>>

SpecCreate == InitCreate /\ [][onCreate]_vars

-----------------------------------------------------------------------------
(* SpecRender: the first frames, each animated and drawn.                  *)

IdentityMat ==
    [r \in 1..4 |-> [c \in 1..4 |-> IF r = c THEN One ELSE Zero]]

\* a transform that scales by 2 and 1/2 and moves along z, with a
\* perspective row
SampleMat ==
    << <<FromInt(2), Zero, Zero, Zero>>,
       <<Zero, Canon(5, -1), Zero, Zero>>,
       <<Zero, Zero, One, FromInt(-4)>>,
       <<Zero, Zero, FNeg(One), Zero>> >>

Matrices == {IdentityMat, SampleMat}

NextRender ==
    \/ \E dt \in FrameTimes : frames < MaxRenderFrames /\ onAnimate(dt)
    \/ \E mv \in Matrices, pr \in Matrices : onDraw(mv, pr)

SpecRender == Init /\ [][NextRender]_vars

-----------------------------------------------------------------------------
(* SpecChecks: onAnimate on arbitrary positions, also ones far outside the *)
(* cube.                                                                   *)

CoordinateSamples ==
    {Zero, FromInt(2), FromInt(-11), Canon(3, 7), Canon(-5, 7), Canon(2, 13)}

PositionSamples ==
    {<<x, y, z>> : x \in CoordinateSamples, y \in CoordinateSamples,
                   z \in CoordinateSamples} \ {<<Zero, Zero, Zero>>}

InitChecks ==
    /\ created = TRUE
    /\ rndSeed = 0
    /\ texW = TexSize
    /\ texH = TexSize
    /\ alpha = BuildAlpha(TexSize, TexSize)
    /\ \E pos \in PositionSamples : vertices = [i \in 1..NumParticles |-> pos]
    /\ colors = InitialColors
    /\ phase = One
    /\ ellapsedTime \in {0, 7}
    /\ halfSize = Zero
    /\ written = NoOutput
    /\ frames = 0
    /\ uniforms = NoUniforms
    /\ vsOut = NoOutput
    /\ gsOut = NoOutput

NextChecks == \E dt \in FrameTimes : frames < MaxCheckFrames /\ onAnimate(dt)

SpecChecks == InitChecks /\ [][NextChecks]_vars

-----------------------------------------------------------------------------
(* Properties of onAnimate, checked on Spec.                               *)

Particles == 1..NumParticles

\* some component of pos lies outside the cube [-10, 10]^3
AnyOutside(pos) ==
    \E k \in 1..3 : FLt(FromInt(10), pos[k]) \/ FLt(pos[k], FromInt(-10))

\* new is farther from the origin than old: no component has shrunk in
\* absolute value and at least one has grown
Farther(old, new) ==
    /\ \A k \in 1..3 : ~FLt(FAbs(new[k]), FAbs(old[k]))
    /\ \E k \in 1..3 : FLt(FAbs(old[k]), FAbs(new[k]))

\* the length of pos is below 0.001
NearZero(pos) == FLt(Mag(pos), Canon(1, -3))

\* C1: in every onAnimate call, a particle whose moved position has no
\* component beyond the boundary 10.0 ends the call strictly farther from the
\* origin than it began it.
C1_DistanceGrows ==
    [][\A i \in Particles :
          ~AnyOutside(Moved(vertices[i])) => Farther(vertices[i], vertices'[i])]_vars

\* a particle that has drifted past distance 1 and was not collapsed by the
\* last call
C1_Witness ==
    /\ frames >= 2
    /\ \E i \in Particles : written[i] = <<>> /\ FLt(One, Mag(vertices[i]))

\* C2: in every onAnimate call, a particle whose moved position has a
\* component beyond the boundary ends the call at the moved position times
\* 0.000001 (applied once), which is near zero, and with the color
\* HSV(fmod(ellapsedTime * 0.05, 1), 1, 1) for the ellapsedTime already
\* increased by this call's dt.
C2_CollapseAndRecolor ==
    [][\A i \in Particles :
          AnyOutside(Moved(vertices[i])) =>
              /\ vertices'[i] = VScale(Moved(vertices[i]), Canon(1, -6))
              /\ NearZero(vertices'[i])
              /\ colors'[i] = [h |-> Canon((ellapsedTime' * 5) % 100, -2),
                               s |-> One, v |-> One]]_vars

\* a particle collapsed by a call that ended at time 24, where the hue has
\* wrapped around to 0.2
C2_Witness ==
    \E i \in Particles :
        /\ Len(written[i]) = 1
        /\ ellapsedTime = 24
        /\ colors[i].h = Canon(2, -1)
        /\ NearZero(vertices[i])

\* C5 as stated: after every onAnimate call halfSize lies in [0, 0.2) and
\* phase is 1.0.  The code subtracts 3 at most once, so a frame time above 5
\* leaves the phase above 3 and halfSize above 0.2.
C5_HalfSizeInRange ==
    frames > 0 =>
        /\ ~FLt(halfSize, Zero)
        /\ FLt(halfSize, Canon(2, -1))
        /\ phase = One

\* C9: after onCreate and after every onAnimate call, every component of
\* every particle's position has absolute value at most 10.0.
C9_InsideCube ==
    created =>
        \A i \in Particles : \A k \in 1..3 :
            ~FLt(FromInt(10), FAbs(vertices[i][k]))

\* a particle that reached the boundary and was collapsed by the last call
C9_Witness ==
    \E i \in Particles : written[i] # <<>> /\ ~AnyOutside(vertices[i])

-----------------------------------------------------------------------------
(* Properties of the run with dt = 1, checked on SpecE2E.                  *)

\* C3, with the hue set rather than changed: from the sphere of radius
\* 0.01 * 80.0 and with dt = 1, every call either moves a particle strictly
\* farther from the origin, or -- when a component of the moved position
\* crosses the boundary 10.0 -- leaves it at a distance below 0.001 with its
\* hue set to fmod(ellapsedTime * 0.05, 1); and every particle reaches such
\* a crossing call.
C3_DriftThenCollapse ==
    /\ [][\A i \in Particles :
             IF AnyOutside(Moved(vertices[i]))
             THEN /\ NearZero(vertices'[i])
                  /\ colors'[i].h = Canon((ellapsedTime' * 5) % 100, -2)
             ELSE Farther(vertices[i], vertices'[i])]_vars
    /\ \A i \in Particles : <>(written[i] # <<>>)

\* the particle that starts at (0.9866, 0, 0.1633) * 0.8 right after its
\* first collapse, in call 934: its hue is again the initial 0.7
C3_Witness ==
    /\ frames = 934
    /\ \E i \in Particles :
           /\ written[i] # <<>>
           /\ NearZero(vertices[i])
           /\ colors[i].h = Canon(7, -1)

\* C3 as stated: as above, but the crossing call changes the hue.
C3_HueChanges ==
    /\ [][\A i \in Particles :
             IF AnyOutside(Moved(vertices[i]))
             THEN /\ NearZero(vertices'[i])
                  /\ colors'[i].h # colors[i].h
             ELSE Farther(vertices[i], vertices'[i])]_vars
    /\ \A i \in Particles : <>(written[i] # <<>>)

\* C10: in every onAnimate call at most one of the three boundary tests
\* fires for a particle.
C10_AtMostOneCheck == \A i \in Particles : Len(written[i]) <= 1

\* a particle on a diagonal, two of whose components crossed the boundary
\* in the last call, collapsed by that call
C10_Witness ==
    \E i \in Particles :
        /\ Len(written[i]) = 1
        /\ \E k \in 1..3, l \in 1..3 :
               k # l /\ vertices[i][k].m # 0 /\ vertices[i][k] = vertices[i][l]

-----------------------------------------------------------------------------
(* Properties of the three boundary tests, checked on SpecChecks.          *)

\* C4: every color the boundary tests of one onAnimate call write to a
\* particle, by the first test that fires and by any later one, has the hue
\* fmod(ellapsedTime * 0.05, 1) of the one ellapsedTime of that call, and
\* the particle keeps that color.
C4_SameHue ==
    \A i \in Particles :
        /\ \A k \in 1..Len(written[i]) :
               written[i][k] = [h |-> Canon((ellapsedTime * 5) % 100, -2),
                                s |-> One, v |-> One]
        /\ written[i] # <<>> => colors[i] = written[i][1]

\* a particle that all three tests rewrote in a call that ended at time 27
C4_Witness ==
    /\ ellapsedTime = 27
    /\ \E i \in Particles :
           Len(written[i]) = 3 /\ colors[i].h = Canon(35, -2)

-----------------------------------------------------------------------------
(* Properties of the alpha texture, checked on SpecCreate.                 *)

\* the sample at column i of row j
Sample(i, j) == alpha[j * texW + i + 1]

Columns == 0..(texW - 1)
Rows == 0..(texH - 1)

\* every sample lies in [0, 2^15 - 1]
InRange == \A n \in 1..Len(alpha) : 0 <= alpha[n] /\ alpha[n] <= 32767

\* the samples at mirrored indices differ by at most tol
Mirrored(tol) ==
    \A i \in Columns, j \in Rows :
        /\ Abs(Sample(i, j) - Sample(texW - 1 - i, j)) <= tol
        /\ Abs(Sample(i, j) - Sample(i, texH - 1 - j)) <= tol
        /\ Abs(Sample(i, j) - Sample(texW - 1 - i, texH - 1 - j)) <= tol

-----------------------------------------------------------------------------
(* Properties of the shader stages, checked on SpecRender.                 *)

\* a draw has happened
Drawn == gsOut # NoOutput

\* sign of the x offset, sign of the y offset and texture coordinate of the
\* four corners, in emission order
Corners == << <<-1, -1, 0, 0>>, <<1, -1, 1, 0>>, <<-1, 1, 0, 1>>, <<1, 1, 1, 1>> >>

\* C7: for every point the geometry stage emits exactly four vertices; the
\* k-th is the projection of the view-transformed point moved by the k-th
\* of (-h,-h), (+h,-h), (-h,+h), (+h,+h) with h = halfSize, has the k-th of
\* the texture coordinates (0,0), (1,0), (0,1), (1,1), and has the point's
\* color.
C7_Quad ==
    Drawn =>
        \A i \in Particles :
            /\ Len(gsOut[i]) = 4
            /\ \A k \in 1..4 :
                   /\ gsOut[i][k].gl_Position =
                          MatVec(uniforms.al_ProjectionMatrix,
                                 V4Add(vsOut[i].gl_Position,
                                       <<FMul(FromInt(Corners[k][1]),
                                              uniforms.halfSize),
                                         FMul(FromInt(Corners[k][2]),
                                              uniforms.halfSize),
                                         Zero, Zero>>))
                   /\ gsOut[i][k].textureCoordinate =
                          <<FromInt(Corners[k][3]), FromInt(Corners[k][4])>>
                   /\ gsOut[i][k].color = vsOut[i].color

\* a draw with a sprite of nonzero size under the perspective transform
C7_Witness ==
    /\ Drawn
    /\ uniforms.halfSize # Zero
    /\ uniforms.al_ProjectionMatrix = SampleMat
    /\ gsOut[1][1].gl_Position # gsOut[1][4].gl_Position

\* values of the phase uniform
PhaseSamples == {Zero, One, FromInt(4), FromInt(20), Canon(25, -1)}

\* C8: in every draw, the position the vertex stage outputs is the view
\* transform applied to the stored vertex position and the color it outputs
\* is the vertex color, and a run of the stage that differs only in the
\* phase uniform outputs the same position and color.
C8_PhaseIndependent ==
    [][frames' = frames =>
          \A i \in Particles :
              /\ vsOut'[i].gl_Position =
                     MatVec(uniforms'.al_ModelViewMatrix,
                            <<vertices[i][1], vertices[i][2], vertices[i][3],
                              One>>)
              /\ vsOut'[i].color = colors[i]
              /\ \A ph \in PhaseSamples :
                     LET other == VertexMain(vertices[i], colors[i],
                                             uniforms'.al_ModelViewMatrix, ph)
                     IN  /\ other.gl_Position = vsOut'[i].gl_Position
                         /\ other.color = vsOut'[i].color]_vars

\* a draw in which the drift offset computed from the phase is not zero
C8_Witness ==
    /\ vsOut # NoOutput
    /\ uniforms.phase # Zero
    /\ \E i \in Particles : vsOut[i].bitToAdd # <<Zero, Zero, Zero>>

=============================================================================
